---- MODULE Spec2Model ----
(***************************************************************************)
(* A model of the Carthage step (src/main.go): main's pipeline, the three  *)
(* helpers parseXCConfigPath, getCarthageVersion and parseProjectDir, and  *)
(* the cache decision of cachedcarthage.Runner.Run, which main calls.     *)
(***************************************************************************)
EXTENDS Integers, Sequences, FiniteSets, TLC

VARIABLES
    pc,             \* position of main: the stage that runs next
    environ,        \* the step's environment, read by stepconf's parser
    configs,        \* Config, as filled in by the parser
    cmdOutput,      \* what carthage version printed and whether it failed
    carthageVersion,\* getCarthageVersion's (version, error) pair
    swiftVersion,   \* getSwiftVersion's output
    args,           \* parseCarthageOptions' token list
    providerCalls,  \* the calls made to FileProvider.LocalPath, with their results
    warnings,       \* number of log.Warnf calls
    xconfig,        \* parseXCConfigPath's (path, error) pair
    projectDir,     \* parseProjectDir's result
    runner,         \* the arguments NewRunner was given
    runCalls,       \* number of runner.Run calls
    cache,          \* the persisted fingerprint and the artifact cache
    run,            \* what runner.Run did: its inputs, decision, builds, error
    failed,         \* the stage whose error made main call fail, Nil if none
    exitCode        \* the process' exit status, read once pc = "exited"

vars == <<pc, environ, configs, cmdOutput, carthageVersion, swiftVersion, args,
          providerCalls, warnings, xconfig, projectDir, runner, runCalls,
          cache, run, failed, exitCode>>

\* a nil error, or an absent string
Nil == "<nil>"
\* a nil *version.Version
NilVersion == [segments |-> <<>>, pre |-> <<>>, original |-> <<>>]
\* a nil error of getCarthageVersion, whose errors carry a text
NilError == [msg |-> Nil, out |-> <<>>]

----------------------------------------------------------------------------
(* Bounds of the model *)

\* longest raw carthage version output, in characters
MaxOut == 5
\* longest option token list given to parseProjectDir
MaxOptions == 4
\* longest option token list shellquote.Split yields in main's pipeline
MaxMainOptions == 2

----------------------------------------------------------------------------
(* Strings are sequences of one-character strings where the code looks     *)
(* inside them (the version probe); elsewhere they are opaque strings.     *)

Digits == {"1", "2"}
Letters == {"v"}
Whitespace == {" ", "\n"}
Chars == Digits \cup Letters \cup {"."} \cup Whitespace

DigitValue(c) == IF c = "1" THEN 1 ELSE 2

\* all strings over S of length at most n
StringsUpTo(S, n) == UNION {[1..k -> S] : k \in 0..n}

\* strings.TrimSpace, as RunAndReturnTrimmedCombinedOutput applies it
RECURSIVE TrimLeft(_)
TrimLeft(s) ==
    IF s # <<>> /\ Head(s) \in Whitespace THEN TrimLeft(Tail(s)) ELSE s

RECURSIVE TrimRight(_)
TrimRight(s) ==
    IF s # <<>> /\ s[Len(s)] \in Whitespace
    THEN TrimRight(SubSeq(s, 1, Len(s) - 1))
    ELSE s

TrimSpace(s) == TrimRight(TrimLeft(s))

\* strings.Split(s, sep) for a one-character separator: never empty
RECURSIVE Split(_, _)
Split(s, sep) ==
    IF \E i \in 1..Len(s) : s[i] = sep
    THEN LET i == CHOOSE k \in 1..Len(s) :
                      s[k] = sep /\ \A j \in 1..(k - 1) : s[j] # sep
         IN  <<SubSeq(s, 1, i - 1)>> \o Split(SubSeq(s, i + 1, Len(s)), sep)
    ELSE <<s>>

----------------------------------------------------------------------------
\* version.NewVersion (hashicorp/go-version), on the model's alphabet. The
\* library matches the whole line against: an optional "v"; one or more
\* dot-separated runs of digits; optionally a prerelease, which (with neither
\* "-" nor "+" in the alphabet) is a letter followed by dot-separated
\* non-empty runs of letters and digits. Fewer than three segments are padded
\* with zeros. Any other line is a "Malformed version" error.

RECURSIVE ParseInt(_)
ParseInt(s) ==
    IF s = <<>> THEN 0
    ELSE 10 * ParseInt(SubSeq(s, 1, Len(s) - 1)) + DigitValue(s[Len(s)])

\* length of the longest prefix of s made of digits and dots
RECURSIVE NumericLen(_)
NumericLen(s) ==
    IF s # <<>> /\ Head(s) \in Digits \cup {"."}
    THEN 1 + NumericLen(Tail(s))
    ELSE 0

AllIn(s, S) == \A i \in 1..Len(s) : s[i] \in S

NumericOK(n) ==
    LET parts == Split(n, ".")
    IN  \A i \in 1..Len(parts) : parts[i] # <<>> /\ AllIn(parts[i], Digits)

PrereleaseOK(r) ==
    \/ r = <<>>
    \/ /\ Head(r) \in Letters
       /\ LET parts == Split(r, ".")
          IN  \A i \in 1..Len(parts) :
                  parts[i] # <<>> /\ AllIn(parts[i], Digits \cup Letters)

Pad3(segs) ==
    IF Len(segs) >= 3 THEN segs
    ELSE segs \o [i \in 1..(3 - Len(segs)) |-> 0]

NewVersion(line) ==
    LET body == IF line # <<>> /\ Head(line) = "v" THEN Tail(line) ELSE line
        k    == NumericLen(body)
        num  == SubSeq(body, 1, k)
        pre  == SubSeq(body, k + 1, Len(body))
        parts == Split(num, ".")
    IN  IF NumericOK(num) /\ PrereleaseOK(pre)
        THEN [err |-> Nil,
              version |-> [segments |-> Pad3([i \in 1..Len(parts) |-> ParseInt(parts[i])]),
                           pre |-> pre,
                           original |-> line]]
        ELSE [err |-> "Malformed version", version |-> NilVersion]

----------------------------------------------------------------------------
(* getCarthageVersion *)

\* a scan that keeps the last line that parses
RECURSIVE ScanLinesLast(_)
ScanLinesLast(lines) ==
    IF lines = <<>> THEN NilVersion
    ELSE LET last == lines[Len(lines)]
         IN  IF NewVersion(last).err = Nil
             THEN NewVersion(last).version
             ELSE ScanLinesLast(SubSeq(lines, 1, Len(lines) - 1))

\* the for loop over the lines: the version of the first line NewVersion
\* accepts, NilVersion when the loop runs to its end
RECURSIVE ScanLines(_)
ScanLines(lines) ==
    IF lines = <<>> THEN NilVersion
    ELSE IF NewVersion(Head(lines)).err = Nil
         THEN NewVersion(Head(lines)).version
         ELSE ScanLines(Tail(lines))

\* cmd is the subprocess' result: [out: trimmed combined output, err]
getCarthageVersion(cmd) ==
    IF cmd.err # Nil
    THEN [version |-> NilVersion, err |-> [msg |-> cmd.err, out |-> <<>>]]
    ELSE LET found == ScanLines(Split(cmd.out, "\n"))
         IN  IF found # NilVersion
             THEN [version |-> found, err |-> NilError]
             ELSE [version |-> NilVersion,
                   err |-> [msg |-> "failed to parse carthage version output",
                            out |-> cmd.out]]

\* cmd.RunAndReturnTrimmedCombinedOutput of carthage version
RunAndReturnTrimmedCombinedOutput(raw, exited) ==
    [out |-> TrimSpace(raw), err |-> IF exited # 0 THEN "exit status 1" ELSE Nil]

----------------------------------------------------------------------------
(* parseProjectDir *)

projectDirArg == "--project-directory"

\* the loop without its continue: the flag token itself is taken as the value
RECURSIVE ProjectDirLoopNoContinue(_, _)
ProjectDirLoopNoContinue(dir, options) ==
    IF options = <<>> THEN dir
    ELSE IF Head(options) = projectDirArg
         THEN Head(options)
         ELSE ProjectDirLoopNoContinue(dir, Tail(options))

parseProjectDirNoContinue(originalDir, customCarthageOptions) ==
    ProjectDirLoopNoContinue(originalDir, customCarthageOptions)

\* the for loop of parseProjectDir: dir is projectDir, options the tokens
\* still to visit
RECURSIVE ProjectDirLoop(_, _, _)
ProjectDirLoop(dir, options, isNextOptionProjectDir) ==
    IF options = <<>> THEN dir
    ELSE IF Head(options) = projectDirArg
         THEN ProjectDirLoop(dir, Tail(options), TRUE)
         ELSE IF isNextOptionProjectDir
              THEN Head(options)
              ELSE ProjectDirLoop(dir, Tail(options), isNextOptionProjectDir)

parseProjectDir(originalDir, customCarthageOptions) ==
    ProjectDirLoop(originalDir, customCarthageOptions, FALSE)

----------------------------------------------------------------------------
(* parseXCConfigPath *)

\* FileProvider.LocalPath's possible results for a path: the local path it
\* resolves to, or an error. main's provider (input.NewFileProvider) makes a
\* file:// path absolute and downloads any other one to a temporary file, so
\* a successful result is never the empty path.
LocalPath(path) ==
    {[path |-> "/local/" \o path, err |-> Nil],
     [path |-> "", err |-> "cannot resolve " \o path]}

\* on a provider error, fall back to the environment path
parseXCConfigPathFallback(pathFromStepInput, pathFromEnv, provided) ==
    IF pathFromStepInput # "" /\ provided.err = Nil
    THEN [path |-> provided.path, err |-> Nil,
          warnings |-> IF pathFromEnv # "" THEN 1 ELSE 0,
          calls |-> <<[path |-> pathFromStepInput, result |-> provided]>>]
    ELSE [path |-> pathFromEnv, err |-> Nil, warnings |-> 0,
          calls |-> IF pathFromStepInput # ""
                    THEN <<[path |-> pathFromStepInput, result |-> provided]>>
                    ELSE <<>>]

\* the environment path wins when both are set
parseXCConfigPathEnvWins(pathFromStepInput, pathFromEnv, provided) ==
    IF pathFromStepInput # "" /\ provided.err # Nil
    THEN [path |-> "", err |-> provided.err, warnings |-> 0,
          calls |-> <<[path |-> pathFromStepInput, result |-> provided]>>]
    ELSE [path |-> IF pathFromEnv # "" THEN pathFromEnv
                   ELSE IF pathFromStepInput # "" THEN provided.path ELSE "",
          err |-> Nil,
          warnings |-> IF pathFromEnv # "" /\ pathFromStepInput # "" THEN 1 ELSE 0,
          calls |-> IF pathFromStepInput # ""
                    THEN <<[path |-> pathFromStepInput, result |-> provided]>>
                    ELSE <<>>]

\* the environment path is resolved through the provider too
parseXCConfigPathResolveEnv(pathFromStepInput, pathFromEnv, provided) ==
    IF pathFromStepInput # "" /\ provided.err # Nil
    THEN [path |-> "", err |-> provided.err, warnings |-> 0,
          calls |-> <<[path |-> pathFromStepInput, result |-> provided]>>]
    ELSE LET pathToUse == IF pathFromStepInput # "" THEN provided.path ELSE ""
         IN  [path |-> IF pathFromEnv # "" /\ pathToUse = ""
                       THEN pathFromEnv ELSE pathToUse,
              err |-> Nil,
              warnings |-> IF pathFromEnv # "" /\ pathToUse # "" THEN 1 ELSE 0,
              calls |-> IF pathFromStepInput # ""
                        THEN <<[path |-> pathFromStepInput, result |-> provided]>>
                        ELSE IF pathFromEnv # ""
                             THEN <<[path |-> pathFromEnv,
                                     result |-> [path |-> pathFromEnv, err |-> Nil]]>>
                             ELSE <<>>]

\* provided is what fileProvider.LocalPath returns when it is called. The
\* result carries, next to (path, err), the warnings logged and the provider
\* calls made.
parseXCConfigPath(pathFromStepInput, pathFromEnv, provided) ==
    IF pathFromStepInput # "" /\ provided.err # Nil
    THEN [path |-> "", err |-> provided.err, warnings |-> 0,
          calls |-> <<[path |-> pathFromStepInput, result |-> provided]>>]
    ELSE LET pathToUse == IF pathFromStepInput # "" THEN provided.path ELSE ""
         IN  [path |-> IF pathFromEnv # "" /\ pathToUse = ""
                       THEN pathFromEnv ELSE pathToUse,
              err |-> Nil,
              warnings |-> IF pathFromEnv # "" /\ pathToUse # "" THEN 1 ELSE 0,
              calls |-> IF pathFromStepInput # ""
                        THEN <<[path |-> pathFromStepInput, result |-> provided]>>
                        ELSE <<>>]

----------------------------------------------------------------------------
(* cachedcarthage: the fingerprint and Runner.Run's cache decision *)

\* no PersistedState, or no payload in the artifact cache
NoState == <<>>

\* what a manifest, lock or override file may hold; "absent" is the sentinel
\* of a missing file
FileContents == {"absent", "c1"}

\* the override file is read only when a path is set
OverrideContents(xcconfigPath) ==
    IF xcconfigPath = "" THEN {"absent"} ELSE {"x1"}

\* the digest of the inputs, in their fixed order: equal iff the inputs are
Fingerprint(manifest, lock, override, toolchain) ==
    <<manifest, lock, override, toolchain>>

\* the payload of fingerprint fp is present and restorable
Restorable(c, fp) == c.artifacts = fp

\* a decision that trusts a fingerprint match alone
CacheDecisionNoRestoreCheck(c, fp) ==
    IF c.persisted # NoState /\ c.persisted = fp THEN "Hit" ELSE "Miss"

CacheDecision(c, fp) ==
    IF c.persisted # NoState /\ c.persisted = fp /\ Restorable(c, fp)
    THEN "Hit"
    ELSE "Miss"

\* the command line the Command Runner executes
BuildCommand(r) ==
    [command |-> r.command, args |-> r.args,
     xcconfigPath |-> r.xcconfigPath, token |-> r.token]

\* a run that persists the fingerprint before the build has ended
RunnerRunPersistFirst(r, c, fp, buildExit) ==
    LET decision == CacheDecision(c, fp)
    IN  IF decision = "Hit"
        THEN [decision |-> decision, builds |-> <<>>, err |-> Nil, cache |-> c]
        ELSE [decision |-> decision, builds |-> <<BuildCommand(r)>>,
              err |-> IF buildExit # 0 THEN "command failed" ELSE Nil,
              cache |-> [persisted |-> fp, artifacts |-> fp]]

\* Runner.Run: r is the runner, c the stores before the run, fp the current
\* fingerprint, buildExit the exit status of the build command if it is run
RunnerRun(r, c, fp, buildExit) ==
    LET decision == CacheDecision(c, fp)
    IN  IF decision = "Hit"
        THEN [decision |-> decision, builds |-> <<>>, err |-> Nil, cache |-> c]
        ELSE IF buildExit # 0
             THEN [decision |-> decision, builds |-> <<BuildCommand(r)>>,
                   err |-> "command failed", cache |-> c]
             ELSE [decision |-> decision, builds |-> <<BuildCommand(r)>>,
                   err |-> Nil,
                   cache |-> [persisted |-> fp, artifacts |-> fp]]

----------------------------------------------------------------------------
(* main *)

ZeroConfig ==
    [GithubAccessToken |-> "", CarthageCommand |-> "", CarthageOptions |-> "",
     SourceDir |-> "", Xcconfig |-> "", XcconfigFromEnv |-> "",
     VerboseLog |-> FALSE]

NoRunner ==
    [command |-> Nil, args |-> <<>>, token |-> Nil, xcconfigPath |-> Nil,
     projectDir |-> Nil, swiftVersion |-> Nil]

NoRun ==
    [before |-> [persisted |-> NoState, artifacts |-> NoState],
     fingerprint |-> NoState, decision |-> "Unknown", builds |-> <<>>,
     err |-> Nil]

NoOutput == [raw |-> <<>>, exit |-> 0]

\* fail: log the error and os.Exit(1)
fail(stage) ==
    /\ pc' = "exited"
    /\ failed' = stage
    /\ exitCode' = 1

\* stepconf's parser: carthage_command is required, verbose_log is one of
\* yes and no
ParseConfig ==
    /\ pc = "parseConfig"
    /\ IF environ.carthage_command = "" \/ environ.verbose_log \notin {"yes", "no"}
       THEN /\ fail("config")
            /\ UNCHANGED configs
       ELSE /\ configs' = [GithubAccessToken |-> environ.github_access_token,
                           CarthageCommand |-> environ.carthage_command,
                           CarthageOptions |-> environ.carthage_options,
                           SourceDir |-> environ.BITRISE_SOURCE_DIR,
                           Xcconfig |-> environ.xcconfig,
                           XcconfigFromEnv |-> environ.XCODE_XCCONFIG_FILE,
                           VerboseLog |-> environ.verbose_log = "yes"]
            /\ pc' = "carthageVersion"
            /\ UNCHANGED <<failed, exitCode>>
    /\ UNCHANGED <<environ, cmdOutput, carthageVersion, swiftVersion, args,
                   providerCalls, warnings, xconfig, projectDir, runner,
                   runCalls, cache, run>>

\* main's call of getCarthageVersion, the subprocess printing one of outputs
GetCarthageVersionStep(outputs) ==
    /\ pc = "carthageVersion"
    /\ \E raw \in outputs, exit \in {0, 1} :
          LET result == getCarthageVersion(
                            RunAndReturnTrimmedCombinedOutput(raw, exit))
          IN  /\ cmdOutput' = [raw |-> raw, exit |-> exit]
              /\ carthageVersion' = result
              /\ IF result.err # NilError
                 THEN fail("carthageVersion")
                 ELSE /\ pc' = "swiftVersion"
                      /\ UNCHANGED <<failed, exitCode>>
    /\ UNCHANGED <<environ, configs, swiftVersion, args, providerCalls,
                   warnings, xconfig, projectDir, runner, runCalls, cache, run>>

\* every output of at most MaxOut characters
AllOutputs == StringsUpTo(Chars, MaxOut)

\* the outputs main's pipeline is run with: a banner before the version, a
\* bare version, two versions, and a banner alone
SampleOutputs ==
    {<<"v", " ", "v", "\n", "1", ".", "2", "\n">>,
     <<"2", ".", "1">>,
     <<"1", "\n", "2">>,
     <<"v", " ", "v">>}

ProbeAnyOutput == GetCarthageVersionStep(AllOutputs)

GetCarthageVersion == GetCarthageVersionStep(SampleOutputs)

\* getSwiftVersion without the check of its error
GetSwiftVersionUnchecked ==
    /\ pc = "swiftVersion"
    /\ \E result \in {[out |-> "swift5", err |-> Nil],
                      [out |-> "", err |-> "exit status 1"]} :
          /\ swiftVersion' = result
          /\ pc' = "parseOptions"
          /\ UNCHANGED <<failed, exitCode>>
    /\ UNCHANGED <<environ, configs, cmdOutput, carthageVersion, args,
                   providerCalls, warnings, xconfig, projectDir, runner,
                   runCalls, cache, run>>

GetSwiftVersion ==
    /\ pc = "swiftVersion"
    /\ \E result \in {[out |-> "swift5", err |-> Nil],
                      [out |-> "", err |-> "exit status 1"]} :
          /\ swiftVersion' = result
          /\ IF result.err # Nil
             THEN fail("swiftVersion")
             ELSE /\ pc' = "parseOptions"
                  /\ UNCHANGED <<failed, exitCode>>
    /\ UNCHANGED <<environ, configs, cmdOutput, carthageVersion, args,
                   providerCalls, warnings, xconfig, projectDir, runner,
                   runCalls, cache, run>>

\* the tokens of the option lists
Tokens == {projectDirArg, "a", "b"}
MainTokens == {projectDirArg, "a"}

\* shellquote.Split of a non-empty option string: a token list, or an error
\* on unbalanced quoting
ShellSplit ==
    {[options |-> o, err |-> Nil] : o \in StringsUpTo(MainTokens, MaxMainOptions)}
        \cup {[options |-> <<>>, err |-> "Unterminated quoted string"]}

ParseCarthageOptions ==
    /\ pc = "parseOptions"
    /\ IF configs.CarthageOptions # ""
       THEN \E split \in ShellSplit :
               IF split.err # Nil
               THEN /\ fail("parseOptions")
                    /\ UNCHANGED args
               ELSE /\ args' = split.options
                    /\ pc' = "xcconfig"
                    /\ UNCHANGED <<failed, exitCode>>
       ELSE /\ args' = <<>>
            /\ pc' = "xcconfig"
            /\ UNCHANGED <<failed, exitCode>>
    /\ UNCHANGED <<environ, configs, cmdOutput, carthageVersion, swiftVersion,
                   providerCalls, warnings, xconfig, projectDir, runner,
                   runCalls, cache, run>>

ParseXCConfigPath ==
    /\ pc = "xcconfig"
    /\ \E provided \in LocalPath(configs.Xcconfig) :
          LET result == parseXCConfigPath(configs.Xcconfig,
                                          configs.XcconfigFromEnv, provided)
          IN  /\ xconfig' = [path |-> result.path, err |-> result.err]
              /\ warnings' = warnings + result.warnings
              /\ providerCalls' = providerCalls \o result.calls
              /\ IF result.err # Nil
                 THEN fail("xcconfig")
                 ELSE /\ pc' = "projectDir"
                      /\ UNCHANGED <<failed, exitCode>>
    /\ UNCHANGED <<environ, configs, cmdOutput, carthageVersion, swiftVersion,
                   args, projectDir, runner, runCalls, cache, run>>

\* the flag and the tokens after it are taken out of the token list
RECURSIVE StripProjectDir(_)
StripProjectDir(options) ==
    IF options = <<>> THEN <<>>
    ELSE IF Head(options) = projectDirArg THEN <<>>
    ELSE <<Head(options)>> \o StripProjectDir(Tail(options))

ParseProjectDirStripping ==
    /\ pc = "projectDir"
    /\ projectDir' = parseProjectDir(configs.SourceDir, args)
    /\ args' = StripProjectDir(args)
    /\ pc' = "newRunner"
    /\ UNCHANGED <<environ, configs, cmdOutput, carthageVersion, swiftVersion,
                   providerCalls, warnings, xconfig, runner, runCalls, cache,
                   run, failed, exitCode>>

ParseProjectDir ==
    /\ pc = "projectDir"
    /\ projectDir' = parseProjectDir(configs.SourceDir, args)
    /\ pc' = "newRunner"
    /\ UNCHANGED <<environ, configs, cmdOutput, carthageVersion, swiftVersion,
                   args, providerCalls, warnings, xconfig, runner, runCalls,
                   cache, run, failed, exitCode>>

NewRunner ==
    /\ pc = "newRunner"
    /\ runner' = [command |-> configs.CarthageCommand,
                  args |-> args,
                  token |-> configs.GithubAccessToken,
                  xcconfigPath |-> xconfig.path,
                  projectDir |-> projectDir,
                  swiftVersion |-> swiftVersion.out]
    /\ pc' = "run"
    /\ UNCHANGED <<environ, configs, cmdOutput, carthageVersion, swiftVersion,
                   args, providerCalls, warnings, xconfig, projectDir,
                   runCalls, cache, run, failed, exitCode>>

\* runner.Run and main's check of its error; the project's files and the
\* build command's exit status are the environment's
Run ==
    /\ pc = "run"
    /\ \E manifest \in FileContents, lock \in FileContents,
          override \in OverrideContents(runner.xcconfigPath),
          buildExit \in {0, 1} :
          LET fp == Fingerprint(manifest, lock, override, runner.swiftVersion)
              result == RunnerRun(runner, cache, fp, buildExit)
          IN  /\ run' = [before |-> cache, fingerprint |-> fp,
                         decision |-> result.decision,
                         builds |-> result.builds, err |-> result.err]
              /\ cache' = result.cache
              /\ runCalls' = runCalls + 1
              /\ IF result.err # Nil
                 THEN fail("run")
                 ELSE /\ pc' = "exited"
                      /\ exitCode' = 0
                      /\ UNCHANGED failed
    /\ UNCHANGED <<environ, configs, cmdOutput, carthageVersion, swiftVersion,
                   args, providerCalls, warnings, xconfig, projectDir, runner>>

----------------------------------------------------------------------------
(* Specifications *)

Environments ==
    [github_access_token : {""},
     carthage_command : {"", "bootstrap"},
     carthage_options : {"", "opts"},
     BITRISE_SOURCE_DIR : {"/src"},
     xcconfig : {"", "file://in.xcconfig"},
     XCODE_XCCONFIG_FILE : {"", "/env.xcconfig"},
     verbose_log : {"no", "maybe"}]

\* the stores a run may find: empty, or left by an earlier run
EarlierFingerprints ==
    {Fingerprint("c1", "absent", "absent", "swift5"),
     Fingerprint("c1", "c1", "x1", "swift5")}

Stores ==
    [persisted : {NoState} \cup EarlierFingerprints,
     artifacts : {NoState} \cup EarlierFingerprints]

\* nothing has run yet
Start ==
    /\ cmdOutput = NoOutput
    /\ carthageVersion = [version |-> NilVersion, err |-> NilError]
    /\ swiftVersion = [out |-> "", err |-> Nil]
    /\ providerCalls = <<>>
    /\ warnings = 0
    /\ xconfig = [path |-> "", err |-> Nil]
    /\ projectDir = ""
    /\ runner = NoRunner
    /\ runCalls = 0
    /\ run = NoRun
    /\ failed = Nil
    /\ exitCode = 0

Init ==
    /\ pc = "parseConfig"
    /\ environ \in Environments
    /\ cache \in Stores
    /\ configs = ZeroConfig
    /\ args = <<>>
    /\ Start

Next ==
    \/ ParseConfig
    \/ GetCarthageVersion
    \/ GetSwiftVersion
    \/ ParseCarthageOptions
    \/ ParseXCConfigPath
    \/ ParseProjectDir
    \/ NewRunner
    \/ Run

\* main, from its first line to its exit
Spec == Init /\ [][Next]_vars

\* the configuration a valid environment parses to
ParsedConfig(sourceDir) ==
    [GithubAccessToken |-> "", CarthageCommand |-> "bootstrap",
     CarthageOptions |-> "opts", SourceDir |-> sourceDir, Xcconfig |-> "",
     XcconfigFromEnv |-> "", VerboseLog |-> FALSE]

ParsedEnviron ==
    [github_access_token |-> "", carthage_command |-> "bootstrap",
     carthage_options |-> "opts", BITRISE_SOURCE_DIR |-> "/src",
     xcconfig |-> "", XCODE_XCCONFIG_FILE |-> "", verbose_log |-> "no"]

\* the default directories parseProjectDir is called with
Dirs == {"/src", "a"}

\* parseProjectDir alone, on every default directory and token list
InitProjectDir ==
    /\ pc = "projectDir"
    /\ environ = ParsedEnviron
    /\ cache = [persisted |-> NoState, artifacts |-> NoState]
    /\ \E d \in Dirs : configs = ParsedConfig(d)
    /\ args \in StringsUpTo(Tokens, MaxOptions)
    /\ Start

NextProjectDir == ParseProjectDir

SpecProjectDir == InitProjectDir /\ [][NextProjectDir]_vars

\* getCarthageVersion alone, on every output of the subprocess
InitVersion ==
    /\ pc = "carthageVersion"
    /\ environ = ParsedEnviron
    /\ cache = [persisted |-> NoState, artifacts |-> NoState]
    /\ configs = ParsedConfig("/src")
    /\ args = <<>>
    /\ Start

NextVersion == ProbeAnyOutput

SpecVersion == InitVersion /\ [][NextVersion]_vars

----------------------------------------------------------------------------
(* Properties *)

HasFlag(options) == \E i \in 1..Len(options) : options[i] = projectDirArg

\* index of the first token equal to the flag literal
FirstFlag(options) ==
    CHOOSE i \in 1..Len(options) :
        options[i] = projectDirArg
        /\ \A j \in 1..(i - 1) : options[j] # projectDirArg

\* parseProjectDir has returned
ProjectDirDone == pc = "newRunner"

\* C1: when the first "--project-directory" token is not the last token,
\* parseProjectDir returns the token right after it, whatever that token is
\* (the flag literal included), which is also its result for the list cut
\* right after that token.
C1_NextTokenWhateverItIs ==
    (ProjectDirDone /\ HasFlag(args) /\ FirstFlag(args) < Len(args)) =>
        /\ projectDir = args[FirstFlag(args) + 1]
        /\ projectDir = parseProjectDir(configs.SourceDir,
                                        SubSeq(args, 1, FirstFlag(args) + 1))

\* C2: with no "--project-directory" token, or with the flag as the last token
\* and nothing after it (its first occurrence is the last token),
\* parseProjectDir returns the default directory, and main goes on without an
\* error.
C2_DefaultRetained ==
    (ProjectDirDone /\ (~HasFlag(args) \/ FirstFlag(args) = Len(args))) =>
        /\ projectDir = configs.SourceDir
        /\ failed = Nil

\* the flag is the last of several tokens and the default is returned
C2_Witness ==
    /\ ProjectDirDone
    /\ Len(args) >= 2
    /\ HasFlag(args)
    /\ FirstFlag(args) = Len(args)
    /\ projectDir = configs.SourceDir

\* the lines getCarthageVersion scans
OutputLines == Split(TrimSpace(cmdOutput.raw), "\n")

Parses(line) == NewVersion(line).err = Nil

\* main's call of getCarthageVersion has returned
VersionDone == pc # "carthageVersion" /\ pc # "parseConfig"

XCConfigDone ==
    \/ pc \in {"projectDir", "newRunner", "run"}
    \/ pc = "exited" /\ failed \in {"xcconfig", "run", Nil}

\* the explicit input was handed to the provider, which resolved it
ExplicitResolved ==
    /\ providerCalls # <<>>
    /\ providerCalls[1].path = configs.Xcconfig
    /\ providerCalls[1].result.err = Nil

\* the explicit input was handed to the provider, which failed
ExplicitFailed ==
    /\ providerCalls # <<>>
    /\ providerCalls[1].path = configs.Xcconfig
    /\ providerCalls[1].result.err # Nil

PreBuildStages ==
    {"config", "carthageVersion", "swiftVersion", "parseOptions", "xcconfig"}

\* the environment stepconf's parser rejects
BadEnviron ==
    environ.carthage_command = "" \/ environ.verbose_log \notin {"yes", "no"}

\* C5: a failure of any stage before the build ends the process with status 1
\* and runner.Run is not called in that run; runner.Run is called at most
\* once and only after every such stage has succeeded; a failure of
\* runner.Run ends the process with status 1 too, with no second call.
C5_FailFastNoRetry ==
    /\ runCalls <= 1
    /\ Len(run.builds) <= 1
    /\ (pc # "parseConfig" /\ BadEnviron) => failed = "config"
    /\ carthageVersion.err # NilError => failed = "carthageVersion"
    /\ swiftVersion.err # Nil => failed = "swiftVersion"
    /\ xconfig.err # Nil => failed = "xcconfig"
    /\ failed \in PreBuildStages =>
          /\ pc = "exited"
          /\ exitCode = 1
          /\ runner = NoRunner
          /\ runCalls = 0
          /\ run = NoRun
    /\ runCalls = 1 =>
          /\ ~BadEnviron
          /\ configs # ZeroConfig
          /\ carthageVersion.version # NilVersion
          /\ carthageVersion.err = NilError
          /\ swiftVersion.err = Nil
          /\ xconfig.err = Nil
          /\ runner # NoRunner
          /\ pc = "exited"
          /\ failed \in {Nil, "run"}
    /\ run.err # Nil => (pc = "exited" /\ exitCode = 1 /\ failed = "run")
    /\ (pc = "exited" /\ exitCode = 0) => (failed = Nil /\ runCalls = 1)
    /\ failed # Nil => (pc = "exited" /\ exitCode = 1)

\* the option string does not split, after both probes succeeded: the
\* process has exited with status 1 and no runner exists
C5_Witness ==
    /\ failed = "parseOptions"
    /\ carthageVersion.version # NilVersion
    /\ swiftVersion.out # ""
    /\ pc = "exited"
    /\ exitCode = 1
    /\ runCalls = 0

\* C6: once the option string is split, the token list is left as it is by
\* every later stage, parseProjectDir included; NewRunner is given that list,
\* and the build command receives it, the flag and its value still in it.
C6_ArgsVerbatim ==
    [][/\ pc # "parseOptions" => args' = args
       /\ pc = "newRunner" => runner'.args = args
       /\ pc = "run" => \A i \in 1..Len(run'.builds) : run'.builds[i].args = args]_vars

\* the build command ran with the flag and its value, which is also the
\* project directory
C6_Witness ==
    /\ run.builds # <<>>
    /\ run.builds[1].args = <<projectDirArg, "a">>
    /\ args = <<projectDirArg, "a">>
    /\ projectDir = "a"
    /\ runner.projectDir = "a"

\* C7: after a run that decided Miss and whose build command failed, the
\* persisted state and the artifact cache are what they were before the run;
\* they change only in a run that decided Miss and whose build succeeded,
\* and then to the run's fingerprint.
C7_FailedBuildLeavesCache ==
    runCalls = 1 =>
        /\ (run.decision = "Miss" /\ run.err # Nil) => cache = run.before
        /\ cache # run.before =>
              /\ run.decision = "Miss"
              /\ run.err = Nil
              /\ Len(run.builds) = 1
              /\ cache = [persisted |-> run.fingerprint,
                          artifacts |-> run.fingerprint]

\* a failed build over an earlier state with another fingerprint, kept
C7_Witness ==
    /\ runCalls = 1
    /\ run.decision = "Miss"
    /\ run.err # Nil
    /\ run.before.persisted # NoState
    /\ run.before.persisted # run.fingerprint
    /\ cache = run.before

\* the three conditions of a Hit, on the stores the run found
HitConditions ==
    /\ run.before.persisted # NoState
    /\ run.before.persisted = run.fingerprint
    /\ run.before.artifacts = run.fingerprint

\* C8: a run decides Hit and invokes no build exactly when a persisted state
\* exists, its fingerprint is the current one and the payload is restorable;
\* in every other case it decides Miss and invokes the build once.
C8_HitIffAllThree ==
    runCalls = 1 =>
        IF HitConditions
        THEN run.decision = "Hit" /\ run.builds = <<>> /\ run.err = Nil
        ELSE run.decision = "Miss" /\ Len(run.builds) = 1

\* the fingerprints match but the payload is not restorable: Miss, one build
C8_Witness ==
    /\ runCalls = 1
    /\ run.before.persisted = run.fingerprint
    /\ run.before.artifacts # run.fingerprint
    /\ run.decision = "Miss"
    /\ Len(run.builds) = 1

\* C9: when the xcconfig input is non-empty and the provider fails on it,
\* parseXCConfigPath returns the provider's error and the empty path, not
\* the environment's path, and logs no warning; main exits with status 1 and
\* no runner is created.
C9_ProviderErrorIsFatal ==
    (configs.Xcconfig # "" /\ ExplicitFailed) =>
        /\ xconfig = [path |-> "", err |-> providerCalls[1].result.err]
        /\ warnings = 0
        /\ pc = "exited"
        /\ failed = "xcconfig"
        /\ exitCode = 1
        /\ runner = NoRunner
        /\ runCalls = 0

\* the provider failed while the environment's path was set
C9_Witness ==
    /\ configs.Xcconfig # ""
    /\ configs.XcconfigFromEnv # ""
    /\ ExplicitFailed
    /\ xconfig.path = ""
    /\ pc = "exited"

\* C10: the provider is called at most once, only when the xcconfig input is
\* non-empty and only with that input; an environment path alone is returned
\* as it is with no provider call; with both empty the result is the empty
\* path, no provider call and no error.
C10_ProviderOnlyForExplicit ==
    /\ Len(providerCalls) <= 1
    /\ providerCalls # <<>> =>
          (configs.Xcconfig # "" /\ providerCalls[1].path = configs.Xcconfig)
    /\ (XCConfigDone /\ configs.Xcconfig = "") =>
          /\ providerCalls = <<>>
          /\ xconfig.err = Nil
          /\ xconfig.path = configs.XcconfigFromEnv

\* only the environment's path is set, and it is returned without a call
C10_Witness ==
    /\ XCConfigDone
    /\ configs.Xcconfig = ""
    /\ configs.XcconfigFromEnv # ""
    /\ xconfig.path = configs.XcconfigFromEnv
    /\ providerCalls = <<>>

====
